---- MODULE Spec2Model ----
(***************************************************************************)
(* The WebSocket relay of floyd-app: ESP8266Client (the single upstream    *)
(* link to the device), WebSocketProxyHandler (the registry of client      *)
(* sessions and the protocol logic) and the administrative endpoints of    *)
(* FloydFeederProxyServer.  Every action is one handler of the Node event  *)
(* loop, run to completion, with the listeners its emits call.  The last   *)
(* part is the app's hook useWebSocket, the client end of a session.       *)
(***************************************************************************)
EXTENDS Integers, Sequences, FiniteSets, TLC

\* ------------------------------------------------------------------ bounds
\* largest maxReconnectAttempts a request supplies (and the initial one)
MaxCfgAttempts == 2
\* what the client holds no handle of, taken together: transports it dropped
\* without closing that are still live, pending reconnect timers whose handle
\* was overwritten, pending settle timers of forceReconnect and updateConfig
MaxUntracked == 1
\* how many upstream messages, and how many forwarded commands, a run whose
\* history records their order goes through
MaxMsgs == 2
MaxCmds == 2

\* reconnectAttempts has no bound of its own once maxReconnectAttempts is
\* undefined: the failure actions stop at this cap
AttemptsCap == MaxCfgAttempts + 1

\* a field a request body does not carry: JavaScript's undefined
Undefined == -1

Sessions == {"A", "B", "C"}

\* the proxy's keepalive settings, in units of 5000 ms
PING_INTERVAL == 6
PING_TIMEOUT == 1

\* the hook's limit of automatic attempts
MAX_RECONNECT_ATTEMPTS == 3
\* how many of each kind the hook has at once of: sockets it closed whose
\* close event is still to come, pending delays of onclose, pending
\* reconnect timers it holds no handle of
MaxHookPending == 2
\* close codes a socket of the hook reports, one for each branch of onclose
HookCloseCodes == {1000, 1001, 1005, 1006, 1011, 3000}

\* the longest silence a registered session is found with at a tick
SilenceCap == 2 * PING_INTERVAL + PING_TIMEOUT

\* close codes the transport reports
CloseCodes == {1000, 1001, 1005, 1006, 1011, 1014}

\* an action string of a command: the recognized ones and an unrecognized one
RecognizedActions == {"toggle_relay", "get_sensors", "set_sensor_interval", "ping"}
CommandActions == {"toggle_relay", "ping", "self_destruct"}
ApiActions == {"toggle_relay", "self_destruct", ""}

\* what a client frame holds: unparseable text, or a command
ClientFrames == {"<malformed>"} \cup CommandActions

\* what an upstream frame holds: unparseable text, or a message of a type
\* ("ping_response" is type command_response with action ping)
UpstreamFrames == {"<malformed>", "sensor_data", "control_response", "pong", "ping_response"}

VARIABLES
  esp,    \* ESP8266Client: its fields, its timers and its transports
  proxy,  \* WebSocketProxyHandler: registry, last payload, client transports;
          \* per session the time since lastPing and until the next tick of
          \* its interval; throws: the sessions whose socket.send and
          \* socket.ping throw in the handler that ran; listening: the HTTP
          \* and WebSocket servers accept requests
  req,    \* the request the last handler served: a client frame, an API command
  hist    \* history of the run, read only by the properties: intendedMax, the
          \* maxReconnectAttempts last supplied; mark, the last administrative
          \* request ("disconnect", "recover": a forced reconnect when the
          \* retries were used up, "" otherwise); lastBroadcast, the upstream
          \* payload broadcast last
VARIABLES
  hook    \* useWebSocket: its refs, its timers and its sockets

vars == <<esp, proxy, req, hist, hook>>

\* ---------------------------------------------------------------- values
\* an event the client emits: its name, its payload, its close code
Ev(name, arg, code) == [name |-> name, arg |-> arg, code |-> code]

Msg(type, text) == [type |-> type, text |-> text, st |-> <<>>]

\* from: a session, "api", or "" when the handler served no request
Req(from, frame) == [from |-> from, frame |-> frame]

NoReq == Req("", "")

\* JavaScript's a >= m: false when m is undefined (NaN)
JsGE(a, m) == m # Undefined /\ a >= m

\* isValidCommand: the action is one of the recognized strings
isValidCommand(action) == action \in RecognizedActions

\* ------------------------------------------------------- ESP8266Client
Emit(e, ev) == [e EXCEPT !.ev = Append(@, ev)]

BeginHandler(e) == [e EXCEPT !.ev = <<>>, !.tx = <<>>]

stopKeepAlive(e) == [e EXCEPT !.pingTimer = FALSE]

startKeepAlive(e) == [stopKeepAlive(e) EXCEPT !.pingTimer = TRUE]

\* new WebSocket(url) throws on a URL whose port is not a number
UrlValid(config) == config.port # Undefined

connect(e) ==
  IF e.isConnected \/ e.isConnecting THEN e
  ELSE IF ~UrlValid(e.config)
       THEN Emit([e EXCEPT !.isConnecting = FALSE], Ev("error", "Failed to create connection", 0))
       ELSE [e EXCEPT !.isConnecting = TRUE,
                      !.ws = "connecting",
                      !.connectionTimer = TRUE]

\* variant: the open handler leaves the connect timeout running
onOpen_keepTimer(e) ==
  Emit(startKeepAlive([e EXCEPT !.ws = "open",
                                !.isConnected = TRUE,
                                !.isConnecting = FALSE,
                                !.reconnectAttempts = 0]),
       Ev("connected", "", 0))

onOpen(e) ==
  Emit(startKeepAlive([e EXCEPT !.connectionTimer = FALSE,
                                !.ws = "open",
                                !.isConnected = TRUE,
                                !.isConnecting = FALSE,
                                !.reconnectAttempts = 0]),
       Ev("connected", "", 0))

disconnect(e) ==
  Emit([stopKeepAlive(e) EXCEPT !.reconnectTimer = FALSE,
                                !.connectionTimer = FALSE,
                                !.ws = "null",
                                !.isConnected = FALSE,
                                !.isConnecting = FALSE,
                                !.reconnectAttempts = 0],
       Ev("disconnected", "", Undefined))

\* variant: the comparison is strict, one attempt more than the maximum
attemptReconnect_strict(e) ==
  IF e.config.maxReconnectAttempts # Undefined
       /\ e.reconnectAttempts > e.config.maxReconnectAttempts
  THEN Emit(e, Ev("maxReconnectAttemptsReached", "", 0))
  ELSE [e EXCEPT !.reconnectAttempts = @ + 1,
                 !.orphanTimers = IF e.reconnectTimer THEN @ + 1 ELSE @,
                 !.reconnectTimer = TRUE]

attemptReconnect(e) ==
  IF JsGE(e.reconnectAttempts, e.config.maxReconnectAttempts)
  THEN Emit(e, Ev("maxReconnectAttemptsReached", "", 0))
  ELSE [e EXCEPT !.reconnectAttempts = @ + 1,
                 !.orphanTimers = IF e.reconnectTimer THEN @ + 1 ELSE @,
                 !.reconnectTimer = TRUE]

\* variant: the connect timeout is left pending
handleConnectionError_keepTimeout(e, cause) ==
  attemptReconnect(
    Emit([e EXCEPT !.isConnecting = FALSE,
                   !.isConnected = FALSE,
                   !.leaked = IF e.ws \in {"connecting", "open"} THEN @ + 1 ELSE @,
                   !.ws = "null"],
         Ev("error", cause, 0)))

\* drops the reference to the transport without closing it
handleConnectionError(e, cause) ==
  attemptReconnect(
    Emit([e EXCEPT !.connectionTimer = FALSE,
                   !.isConnecting = FALSE,
                   !.isConnected = FALSE,
                   !.leaked = IF e.ws \in {"connecting", "open"} THEN @ + 1 ELSE @,
                   !.ws = "null"],
         Ev("error", cause, 0)))

\* variant: every closure but the normal one evaluates the retry policy
handleDisconnection_unlessNormal(e, code) ==
  LET d == Emit([stopKeepAlive(e) EXCEPT !.isConnected = FALSE,
                                         !.isConnecting = FALSE,
                                         !.ws = "null"],
                Ev("disconnected", "", code))
  IN IF code # 1000 THEN attemptReconnect(d) ELSE d

\* variant: the reference to the closed transport is kept
handleDisconnection_keepRef(e, code) ==
  LET d == Emit([stopKeepAlive(e) EXCEPT !.isConnected = FALSE,
                                         !.isConnecting = FALSE],
                Ev("disconnected", "", code))
  IN IF code = 1006 \/ code = 1011 \/ code = 1014 THEN attemptReconnect(d) ELSE d

handleDisconnection(e, code) ==
  LET d == Emit([stopKeepAlive(e) EXCEPT !.isConnected = FALSE,
                                         !.isConnecting = FALSE,
                                         !.ws = "null"],
                Ev("disconnected", "", code))
  IN IF code = 1006 \/ code = 1011 \/ code = 1014 THEN attemptReconnect(d) ELSE d

\* variant: the frame is written twice
sendCommand_twice(e, action, fails) ==
  IF ~e.isConnected \/ e.ws = "null" THEN [e |-> e, ok |-> FALSE]
  ELSE IF fails THEN [e |-> Emit(e, Ev("error", "send", 0)), ok |-> FALSE]
  ELSE [e |-> [e EXCEPT !.tx = @ \o <<action, action>>], ok |-> TRUE]

\* the result and the client after sendCommand; fails: ws.send throws
sendCommand(e, action, fails) ==
  IF ~e.isConnected \/ e.ws = "null" THEN [e |-> e, ok |-> FALSE]
  ELSE IF fails THEN [e |-> Emit(e, Ev("error", "send", 0)), ok |-> FALSE]
  ELSE [e |-> [e EXCEPT !.tx = Append(@, action)], ok |-> TRUE]

\* the message handler of the transport
onMessage(e, frame) ==
  IF frame = "<malformed>" THEN Emit(e, Ev("error", "Invalid message format", 0))
  ELSE IF frame = "ping_response" THEN e
  ELSE Emit(e, Ev("message", frame, 0))

\* { ...config, ...newConfig }: every key newConfig has overwrites
MergeConfig(config, newConfig) ==
  [k \in DOMAIN config |-> IF k \in DOMAIN newConfig THEN newConfig[k] ELSE config[k]]

updateConfig(e, newConfig) ==
  LET wasConnected == e.isConnected
      d == IF wasConnected THEN disconnect(e) ELSE e
  IN [d EXCEPT !.config = MergeConfig(d.config, newConfig),
               !.settleCfg = IF wasConnected THEN @ + 1 ELSE @]

forceReconnect(e) == [disconnect(e) EXCEPT !.settleForce = @ + 1]

\* the callback of forceReconnect's setTimeout
\* variant: the settle callback connects without resetting the counter
forceReconnectCallback_noReset(e) == connect(e)

forceReconnectCallback(e) == connect([e EXCEPT !.reconnectAttempts = 0])

\* variant: a device that has not acknowledged in time is treated as lost
keepAliveTick_dropOnOverdue(e, overdue, fails) ==
  IF e.isConnected /\ e.ws # "null"
  THEN IF overdue
       THEN handleConnectionError(e, "Connection timeout")
       ELSE sendCommand(e, "ping", fails).e
  ELSE e

\* the callback of startKeepAlive's setInterval
\* overdue: lastPingTime is older than PING_INTERVAL + PING_TIMEOUT, which
\* the callback answers with console.warn and nothing else
keepAliveTick(e, overdue, fails) ==
  IF e.isConnected /\ e.ws # "null"
  THEN LET warned == IF overdue THEN e ELSE e
       IN sendCommand(warned, "ping", fails).e
  ELSE e

\* ------------------------------------------------- WebSocketProxyHandler
BeginProxy(p) == [p EXCEPT !.tx = [c \in Sessions |-> <<>>], !.throws = {}]

\* variant: the entry is deleted with its interval left running
handleClientDisconnection_keepTimer(p, c) ==
  IF c \in p.clients
  THEN [p EXCEPT !.clients = @ \ {c}, !.sinceLastPing[c] = 0]
  ELSE p

\* variant: an id that is not registered cancels every timer
handleClientDisconnection_absentClearsAll(p, c) ==
  IF c \in p.clients
  THEN [p EXCEPT !.pingInterval = @ \ {c}, !.clients = @ \ {c},
                 !.sinceLastPing[c] = 0, !.untilTick[c] = 0]
  ELSE [p EXCEPT !.pingInterval = {}]

handleClientDisconnection(p, c) ==
  IF c \in p.clients
  THEN [p EXCEPT !.pingInterval = @ \ {c}, !.clients = @ \ {c},
                 !.sinceLastPing[c] = 0, !.untilTick[c] = 0]
  ELSE p

RECURSIVE RemoveAll(_, _)
RemoveAll(p, cs) ==
  IF cs = {} THEN p
  ELSE LET c == CHOOSE x \in cs : TRUE
       IN RemoveAll(handleClientDisconnection(p, c), cs \ {c})

\* variant: the sessions that could not be written to stay registered
broadcastToClients_keepStale(p, msg, F) ==
  IF p.clients = {} THEN p
  ELSE LET sent == {c \in p.clients : p.sock[c] = "open" /\ c \notin F}
       IN [p EXCEPT !.tx = [c \in Sessions |->
                              IF c \in sent THEN Append(@[c], msg) ELSE @[c]]]

\* variant: every session that can be written to is written to twice
broadcastToClients_twice(p, msg, F) ==
  IF p.clients = {} THEN p
  ELSE LET sent == {c \in p.clients : p.sock[c] = "open" /\ c \notin F}
           clientsToRemove == p.clients \ sent
           q == [p EXCEPT !.tx = [c \in Sessions |->
                                    IF c \in sent THEN @[c] \o <<msg, msg>> ELSE @[c]]]
       IN RemoveAll(q, clientsToRemove)

\* F: the sessions whose socket.send throws during this broadcast
broadcastToClients(p, msg, F) ==
  IF p.clients = {} THEN p
  ELSE LET sent == {c \in p.clients : p.sock[c] = "open" /\ c \notin F}
           clientsToRemove == p.clients \ sent
           q == [p EXCEPT !.tx = [c \in Sessions |->
                                    IF c \in sent THEN Append(@[c], msg) ELSE @[c]]]
       IN RemoveAll(q, clientsToRemove)

\* variant: a status is broadcast to nobody
broadcastStatus_none(p, text, F) == p

broadcastStatus(p, text, F) == broadcastToClients(p, Msg("status", text), F)

\* variant: an error is broadcast to nobody
broadcastError_none(p, text, F) == p

broadcastError(p, text, F) == broadcastToClients(p, Msg("error", text), F)

\* tx: the messages written to each client transport by the handler that
\* ran; a throw of socket.send (p.throws) is logged, no more
sendToClient(p, c, msg) ==
  IF p.sock[c] # "open" THEN p
  ELSE IF c \in p.throws THEN p
  ELSE [p EXCEPT !.tx[c] = Append(@, msg)]

\* variant: the error goes to every registered session
sendErrorToClient_toAll(p, c, text) == broadcastToClients(p, Msg("error", text), {})

sendErrorToClient(p, c, text) == sendToClient(p, c, Msg("error", text))

sendConnectionStatus(p, e, c) ==
  sendToClient(p, c, [type |-> "status", text |-> "snapshot",
                      st |-> <<e.isConnected, e.isConnecting, e.reconnectAttempts>>])

\* the listeners setupESP8266Listeners registers
onEspEvent(p, ev, F) ==
  CASE ev.name = "message" ->
         LET q == [p EXCEPT !.lastESP8266Data = ev.arg]
         IN IF ev.arg = "pong" \/ ev.arg = "ping_response" THEN q
            ELSE broadcastToClients(q, Msg(ev.arg, "payload"), F)
    [] ev.name = "connected" -> broadcastStatus(p, "ESP8266 connected", F)
    [] ev.name = "disconnected" -> broadcastError(p, "ESP8266 disconnected", F)
    [] ev.name = "error" -> broadcastError(p, "ESP8266 error", F)
    [] ev.name = "maxReconnectAttemptsReached" ->
         broadcastError(p, "max reconnect attempts reached", F)

\* the listeners run inside each emit, in the order of the emits; they read
\* nothing of the client but the event.  Fs[i]: the writes that throw in the
\* i-th broadcast
RECURSIVE Listeners(_, _, _, _)
Listeners(p, evs, Fs, i) ==
  IF i > Len(evs) THEN p
  ELSE Listeners(onEspEvent(p, evs[i], Fs[i]), evs, Fs, i + 1)

\* variant: the stored payload is sent before the status
handleConnection_payloadFirst(p, e, c) ==
  LET r == [p EXCEPT !.sock[c] = "open",
                     !.clients = @ \cup {c},
                     !.pingInterval = @ \cup {c},
                     !.sinceLastPing[c] = 0,
                     !.untilTick[c] = PING_INTERVAL]
      s == IF p.lastESP8266Data # "null"
           THEN sendToClient(r, c, Msg(p.lastESP8266Data, "payload"))
           ELSE r
  IN sendConnectionStatus(s, e, c)

handleConnection(p, e, c) ==
  LET r == [p EXCEPT !.sock[c] = "open",
                     !.clients = @ \cup {c},
                     !.pingInterval = @ \cup {c},
                     !.sinceLastPing[c] = 0,
                     !.untilTick[c] = PING_INTERVAL]
      s == sendConnectionStatus(r, e, c)
  IN IF p.lastESP8266Data # "null"
     THEN sendToClient(s, c, Msg(p.lastESP8266Data, "payload"))
     ELSE s

\* variant: a command that cannot be forwarded is dropped without an answer
forwardCommandToESP8266_silent(p, e, action, c, fails, Fs) ==
  IF ~e.isConnected
  THEN [p |-> p, e |-> e]
  ELSE LET r == sendCommand(e, action, fails)
       IN [p |-> Listeners(p, r.e.ev, Fs, 1), e |-> r.e]

\* the proxy and the client after forwardCommandToESP8266
forwardCommandToESP8266(p, e, action, c, fails, Fs) ==
  IF ~e.isConnected
  THEN [p |-> IF c \in p.clients THEN sendErrorToClient(p, c, "ESP8266 not connected") ELSE p,
        e |-> e]
  ELSE LET r == sendCommand(e, action, fails)
           q == Listeners(p, r.e.ev, Fs, 1)
       IN IF ~r.ok
          THEN [p |-> IF c \in q.clients
                      THEN sendErrorToClient(q, c, "Failed to send command to ESP8266")
                      ELSE q,
                e |-> r.e]
          ELSE [p |-> q, e |-> r.e]

\* variant: a ping is validated and forwarded like any other command
handleClientMessage_forwardPing(p, e, c, frame, fails, Fs) ==
  IF c \notin p.clients THEN [p |-> p, e |-> e]
  ELSE IF frame = "<malformed>"
       THEN [p |-> sendErrorToClient(p, c, "Invalid JSON format"), e |-> e]
  ELSE IF ~isValidCommand(frame)
       THEN [p |-> sendErrorToClient(p, c, "Invalid command format"), e |-> e]
  ELSE forwardCommandToESP8266(p, e, frame, c, fails, Fs)

\* variant: the sender of a frame that cannot be used is unregistered
handleClientMessage_dropSender(p, e, c, frame, fails, Fs) ==
  IF c \notin p.clients THEN [p |-> p, e |-> e]
  ELSE IF frame = "<malformed>"
       THEN [p |-> handleClientDisconnection(
                     sendErrorToClient(p, c, "Invalid JSON format"), c),
             e |-> e]
  ELSE IF frame = "ping"
       THEN [p |-> sendToClient([p EXCEPT !.sinceLastPing[c] = 0], c,
                                Msg("command_response", "pong")),
             e |-> e]
  ELSE IF ~isValidCommand(frame)
       THEN [p |-> handleClientDisconnection(
                     sendErrorToClient(p, c, "Invalid command format"), c),
             e |-> e]
  ELSE forwardCommandToESP8266(p, e, frame, c, fails, Fs)

\* the proxy and the client after handleClientMessage
handleClientMessage(p, e, c, frame, fails, Fs) ==
  IF c \notin p.clients THEN [p |-> p, e |-> e]
  ELSE IF frame = "<malformed>"
       THEN [p |-> sendErrorToClient(p, c, "Invalid JSON format"), e |-> e]
  ELSE IF frame = "ping"
       THEN [p |-> sendToClient([p EXCEPT !.sinceLastPing[c] = 0], c,
                                Msg("command_response", "pong")),
             e |-> e]
  ELSE IF ~isValidCommand(frame)
       THEN [p |-> sendErrorToClient(p, c, "Invalid command format"), e |-> e]
  ELSE forwardCommandToESP8266(p, e, frame, c, fails, Fs)

\* variant: the time since the last liveness signal is not looked at
sendPingToClient_noTimeout(p, c) ==
  IF c \notin p.clients THEN p
  ELSE IF p.sock[c] # "open" THEN handleClientDisconnection(p, c)
  ELSE IF c \in p.throws THEN handleClientDisconnection(p, c)
  ELSE [p EXCEPT !.tx[c] = Append(@, Msg("<ping frame>", ""))]

\* the callback of a session's interval; the transport-level probe is
\* recorded in tx as a message of type "<ping frame>"
sendPingToClient(p, c) ==
  IF c \notin p.clients THEN p
  ELSE IF p.sock[c] # "open" THEN handleClientDisconnection(p, c)
  ELSE IF p.sinceLastPing[c] > PING_INTERVAL + PING_TIMEOUT
       THEN handleClientDisconnection(p, c)
  ELSE IF c \in p.throws THEN handleClientDisconnection(p, c)
  ELSE [p EXCEPT !.tx[c] = Append(@, Msg("<ping frame>", ""))]

\* variant: a pong does not count as a liveness signal
onClientPong_ignored(p, c) == p

\* the pong listener of a client transport
onClientPong(p, c) ==
  IF c \in p.clients THEN [p EXCEPT !.sinceLastPing[c] = 0] ELSE p

\* the clients half of shutdown: intervals cleared, open transports closed
\* with 1001, registry emptied
closeClients(p) ==
  [p EXCEPT !.pingInterval = @ \ p.clients,
            !.sock = [c \in Sessions |->
                        IF c \in p.clients /\ p.sock[c] = "open"
                        THEN "closing 1001" ELSE p.sock[c]],
            !.sinceLastPing = [c \in Sessions |-> IF c \in p.clients THEN 0 ELSE @[c]],
            !.untilTick = [c \in Sessions |-> IF c \in p.clients THEN 0 ELSE @[c]],
            !.clients = {}]

\* variant: the link is disconnected before the clients are closed
shutdown_upstreamFirst(p, e, Fs) ==
  LET e2 == disconnect(e)
  IN [p |-> closeClients(Listeners(p, e2.ev, Fs, 1)), e |-> e2]

\* the proxy and the client after shutdown; Fs as in Listeners
shutdown(p, e, Fs) ==
  LET q == closeClients(p)
      e2 == disconnect(e)
  IN [p |-> Listeners(q, e2.ev, Fs, 1), e |-> e2]

\* ---------------------------------------------------------------- history
Names(evs) == {evs[i].name : i \in 1..Len(evs)}

\* the last upstream payload among the events that the proxy broadcasts
RECURSIVE LastPayload(_, _)
LastPayload(evs, dflt) ==
  IF evs = <<>> THEN dflt
  ELSE LET ev == evs[Len(evs)]
       IN IF ev.name = "message" /\ ev.arg \notin {"pong", "ping_response"}
          THEN ev.arg
          ELSE LastPayload(SubSeq(evs, 1, Len(evs) - 1), dflt)

\* ------------------------------------------------------------------------
\* The client hook useWebSocket (src/hooks/useWebSocket.ts, the later of the
\* two versions in the file).  hook holds its refs:
\*   ws               websocketRef: "null", or the state of the socket it
\*                    refers to ("connecting", "open", "closed")
\*   closing          sockets closed by cleanup whose close event is still
\*                    to come; their onclose handlers stay attached
\*   connectionTimer  connectionTimeoutRef's timer is pending
\*   heartbeat        heartbeatTimeoutRef's timer is pending
\*   reconnectPending the timer reconnectTimeoutRef refers to is pending
\*   orphans          pending reconnect timers whose handle was overwritten
\*   delays           pending 2-second timers of onclose (no handle kept)
\*   attempts         connectionAttemptsRef
\*   mounted          isMountedRef
\* and, for the properties, stopped (disconnect() was the last of connect,
\* disconnect and resetConnection), began (the last handler created a
\* socket) and op (the last handler).  The url is set and well-formed.

cleanup(h) ==
  [h EXCEPT !.reconnectPending = FALSE,
            !.heartbeat = FALSE,
            !.connectionTimer = FALSE,
            !.closing = IF h.ws \in {"connecting", "open"} THEN @ + 1 ELSE @,
            !.ws = "null"]

BeginHook(h, name) == [h EXCEPT !.began = FALSE, !.op = name]

hookAttemptReconnect(h) ==
  IF h.attempts >= MAX_RECONNECT_ATTEMPTS THEN h
  ELSE [h EXCEPT !.orphans = IF h.reconnectPending THEN @ + 1 ELSE @,
                 !.reconnectPending = TRUE]

connectInternal(h) ==
  [cleanup(h) EXCEPT !.connectionTimer = TRUE,
                     !.ws = "connecting",
                     !.began = TRUE]

\* the callback of attemptReconnect's setTimeout
reconnectCallback(h) ==
  IF h.mounted THEN connectInternal([h EXCEPT !.attempts = @ + 1]) ELSE h

hookOnOpen(h) ==
  [h EXCEPT !.ws = "open",
            !.connectionTimer = FALSE,
            !.attempts = 0,
            !.heartbeat = TRUE]

shouldReconnect(code) ==
  IF code = 1006 THEN TRUE
  ELSE IF code = 1000 THEN FALSE
  ELSE IF code = 1001 THEN FALSE
  ELSE IF code = 1011 THEN TRUE
  ELSE IF code >= 3000 THEN TRUE
  ELSE code # 1000 /\ code # 1001

\* onclose of any socket the hook created, attached or not
hookOnClose(h, code) ==
  LET c == [h EXCEPT !.connectionTimer = FALSE]
  IN IF shouldReconnect(code) /\ c.attempts < MAX_RECONNECT_ATTEMPTS
     THEN [c EXCEPT !.delays = @ + 1]
     ELSE c

\* the callback of onclose's setTimeout
delayCallback(h) ==
  IF h.mounted THEN hookAttemptReconnect(h) ELSE h

hookConnect(h) == connectInternal([h EXCEPT !.attempts = 0, !.stopped = FALSE])

hookDisconnect(h) == [cleanup(h) EXCEPT !.attempts = 0, !.stopped = TRUE]

resetConnection(h) == connectInternal([h EXCEPT !.attempts = 0, !.stopped = FALSE])

\* the callback of startHeartbeat's setTimeout: schedules the next one
\* while the component is mounted and the socket is open
heartbeatCallback(h) ==
  [h EXCEPT !.heartbeat = h.mounted /\ h.ws = "open"]

\* the effect's cleanup function
unmount(h) == cleanup([h EXCEPT !.mounted = FALSE])

InitHook ==
  [ws |-> "null", closing |-> 0, connectionTimer |-> FALSE,
   heartbeat |-> FALSE, reconnectPending |-> FALSE, orphans |-> 0,
   delays |-> 0, attempts |-> 0, mounted |-> TRUE,
   stopped |-> FALSE, began |-> FALSE, op |-> ""]

\* ------------------------------------------------------------------- Init
InitConfig == [port |-> 81, maxReconnectAttempts |-> MaxCfgAttempts]

InitClient ==
  [isConnected |-> FALSE, isConnecting |-> FALSE, ws |-> "null",
   reconnectAttempts |-> 0, reconnectTimer |-> FALSE,
   connectionTimer |-> FALSE, pingTimer |-> FALSE,
   config |-> InitConfig,
   orphanTimers |-> 0, settleForce |-> 0, settleCfg |-> 0, leaked |-> 0,
   ev |-> <<>>, tx |-> <<>>]

InitProxy ==
  [clients |-> {}, pingInterval |-> {}, lastESP8266Data |-> "null",
   sinceLastPing |-> [c \in Sessions |-> 0],
   untilTick |-> [c \in Sessions |-> 0],
   listening |-> TRUE,
   sock |-> [c \in Sessions |-> "none"],
   throws |-> {},
   tx |-> [c \in Sessions |-> <<>>]]

\* track: which of the orders of the run the history records ("" none,
\* "down" what the sessions were sent, "up" what was written upstream)
InitHist(track) ==
  [intendedMax |-> MaxCfgAttempts, mark |-> "", lastBroadcast |-> "null",
   track |-> track,
   atOpen |-> {}, told |-> {}, emitted |-> <<>>,
   recv |-> [c \in Sessions |-> <<>>],
   accepted |-> <<>>, written |-> <<>>]

Init ==
  /\ esp = InitClient
  /\ proxy = InitProxy
  /\ req = NoReq
  /\ hist = InitHist("")
  /\ hook = InitHook

\* ---------------------------------------------------------------- actions
OpenClients == {c \in proxy.clients : proxy.sock[c] = "open"}

\* the writes that throw in each of the n broadcasts of a handler
FailSets(n) == [1..n -> SUBSET OpenClients]

\* the frames of the events named "message", in the order of the emits
RECURSIVE Messages(_)
Messages(evs) ==
  IF evs = <<>> THEN <<>>
  ELSE (IF Head(evs).name = "message" THEN <<Head(evs).arg>> ELSE <<>>)
       \o Messages(Tail(evs))

\* the upstream payloads among the messages written to a session
RECURSIVE Payloads(_)
Payloads(ms) ==
  IF ms = <<>> THEN <<>>
  ELSE (IF Head(ms).text = "payload" THEN <<Head(ms).type>> ELSE <<>>)
       \o Payloads(Tail(ms))

\* a status that reports the link connected: the broadcast of the connected
\* event, or a join snapshot whose isConnected is true
SaysConnected(m) ==
  /\ m.type = "status"
  /\ \/ m.text = "ESP8266 connected"
     \/ m.text = "snapshot" /\ m.st[1]

\* the history after the step that leaves esp', proxy' and req'.  Of the
\* connection opened last: atOpen, the sessions registered with an open
\* transport when it opened; told, the sessions written a status that
\* reports it.  emitted: the frames of the link's message events; recv: the
\* payloads written to each session since its transport opened.  accepted:
\* the session and the command of each client frame that named a recognized
\* action other than ping, came from a registered session while the link
\* was connected and whose write did not throw (accept: this step's is
\* one); written: the frames written upstream by handlers of client messages
Record(h, accept) ==
  LET alive == {c \in Sessions : proxy'.sock[c] # "none"}
      got == {c \in Sessions :
                \E i \in 1..Len(proxy'.tx[c]) : SaysConnected(proxy'.tx[c][i])}
      opened == "connected" \in Names(esp'.ev)
  IN CASE h.track = "down" ->
            [h EXCEPT !.atOpen = IF opened THEN OpenClients ELSE @ \cap alive,
                      !.told = IF opened THEN got ELSE (@ \cap alive) \cup got,
                      !.emitted = @ \o Messages(esp'.ev),
                      !.recv = [c \in Sessions |->
                                  IF c \in alive THEN @[c] \o Payloads(proxy'.tx[c])
                                  ELSE <<>>]]
       [] h.track = "up" ->
            [h EXCEPT !.accepted = IF accept THEN Append(@, <<req'.from, req'.frame>>) ELSE @,
                      !.written = IF req'.from \in Sessions THEN @ \o esp'.tx ELSE @]
       [] OTHER -> h

\* a handler of the upstream client ran and left it as e2
Step(e2, r, h) ==
  /\ esp' = e2
  /\ \E Fs \in FailSets(Len(e2.ev)) : proxy' = Listeners(BeginProxy(proxy), e2.ev, Fs, 1)
  /\ req' = r
  /\ hook' = hook
  /\ hist' = Record([h EXCEPT !.lastBroadcast = LastPayload(e2.ev, @)], FALSE)

Untracked(e) == e.leaked + e.orphanTimers + e.settleForce + e.settleCfg

\* the reconnect policy can run within the caps of the model
CanFail(e) ==
  \/ JsGE(e.reconnectAttempts, e.config.maxReconnectAttempts)
  \/ /\ e.reconnectAttempts < AttemptsCap
     /\ e.reconnectTimer => Untracked(e) < MaxUntracked

\* POST /api/esp8266/connect, and start()
ApiConnect ==
  /\ proxy.listening
  /\ Step(connect(BeginHandler(esp)), NoReq, [hist EXCEPT !.mark = ""])

\* POST /api/esp8266/disconnect
ApiDisconnect ==
  /\ proxy.listening
  /\ Step(disconnect(BeginHandler(esp)), NoReq, [hist EXCEPT !.mark = "disconnect"])

\* the automatic retries are used up
Exhausted(e) ==
  /\ ~e.isConnected /\ ~e.isConnecting /\ ~e.reconnectTimer
  /\ JsGE(e.reconnectAttempts, e.config.maxReconnectAttempts)

\* POST /api/esp8266/reconnect
ApiReconnect ==
  /\ proxy.listening
  /\ Untracked(esp) < MaxUntracked
  /\ Step(forceReconnect(BeginHandler(esp)), NoReq,
          [hist EXCEPT !.mark = IF Exhausted(esp) THEN "recover" ELSE ""])

ConfigFields == {"port", "maxReconnectAttempts"}

FieldValues(k) == IF k = "port" THEN {81} ELSE 0..MaxCfgAttempts

\* the JSON bodies of a config request: any of the fields, each with a value
Bodies ==
  UNION {{b \in [ks -> {81} \cup (0..MaxCfgAttempts)] :
            \A k \in ks : b[k] \in FieldValues(k)} : ks \in SUBSET ConfigFields}

\* PUT /api/esp8266/config: the handler passes every field, undefined when
\* the body does not carry it
PutConfigArg(body) ==
  [k \in ConfigFields |-> IF k \in DOMAIN body THEN body[k] ELSE Undefined]

PutConfig ==
  \E body \in Bodies :
    /\ proxy.listening
    /\ esp.isConnected => Untracked(esp) < MaxUntracked
    /\ Step(updateConfig(BeginHandler(esp), PutConfigArg(body)), NoReq,
            [hist EXCEPT !.mark = "",
                         !.intendedMax = IF "maxReconnectAttempts" \in DOMAIN body
                                         THEN body["maxReconnectAttempts"] ELSE @])

\* POST /api/command; "" is a body without an action
ApiCommand ==
  \E action \in ApiActions, fails \in BOOLEAN :
    LET e == BeginHandler(esp)
        e2 == IF action = "" THEN e ELSE sendCommand(e, action, fails).e
    IN proxy.listening /\ Step(e2, Req("api", action), hist)

\* the callback of connect's setTimeout: the transport is still being opened
ConnectionTimeout ==
  /\ esp.connectionTimer
  /\ CanFail(esp)
  /\ Untracked(esp) + (IF esp.reconnectTimer THEN 1 ELSE 0) < MaxUntracked
  /\ Step(handleConnectionError(BeginHandler(esp), "Connection timeout"), NoReq, hist)

\* the callback of attemptReconnect's setTimeout, the one reconnectTimer holds
ReconnectTimerFires ==
  /\ esp.reconnectTimer
  /\ Step(connect([BeginHandler(esp) EXCEPT !.reconnectTimer = FALSE]), NoReq, hist)

\* the same callback of a timer whose handle was overwritten
OrphanTimerFires ==
  /\ esp.orphanTimers > 0
  /\ Step(connect([BeginHandler(esp) EXCEPT !.orphanTimers = @ - 1]), NoReq, hist)

\* the callback of forceReconnect's setTimeout
ForceSettleFires ==
  /\ esp.settleForce > 0
  /\ Step(forceReconnectCallback([BeginHandler(esp) EXCEPT !.settleForce = @ - 1]),
          NoReq, hist)

\* the callback of updateConfig's setTimeout
ConfigSettleFires ==
  /\ esp.settleCfg > 0
  /\ Step(connect([BeginHandler(esp) EXCEPT !.settleCfg = @ - 1]), NoReq, hist)

KeepAliveTick ==
  /\ esp.pingTimer
  /\ \E overdue \in BOOLEAN, fails \in BOOLEAN :
       Step(keepAliveTick(BeginHandler(esp), overdue, fails), NoReq, hist)

\* the transport's open event
UpstreamOpen ==
  /\ esp.ws = "connecting"
  /\ Step(onOpen(BeginHandler(esp)), NoReq, hist)

\* the transport's error event: the library has torn the transport down
UpstreamError ==
  /\ esp.ws \in {"connecting", "open"}
  /\ CanFail(esp)
  /\ Step(handleConnectionError([BeginHandler(esp) EXCEPT !.ws = "closed"], "transport"),
          NoReq, hist)

\* the transport's close event; before open the library emits error first,
\* whose handler has removed the listeners
UpstreamClose ==
  /\ esp.ws = "open"
  /\ CanFail(esp)
  /\ \E code \in CloseCodes :
       Step(handleDisconnection(BeginHandler(esp), code), NoReq, hist)

\* the transport's message event
UpstreamMessage ==
  /\ esp.ws = "open"
  /\ hist.track = "down" => Len(hist.emitted) < MaxMsgs
  /\ \E frame \in UpstreamFrames :
       Step(onMessage(BeginHandler(esp), frame), NoReq, hist)

\* a transport the client no longer refers to ends
LeakedTransportCloses ==
  /\ esp.leaked > 0
  /\ esp' = [BeginHandler(esp) EXCEPT !.leaked = @ - 1]
  /\ proxy' = BeginProxy(proxy)
  /\ req' = NoReq
  /\ hook' = hook
  /\ hist' = Record(hist, FALSE)

\* wss 'connection': a client transport opens.  S: the transports that
\* open; W: those on which a write can throw
ClientConnect(S, W) ==
  \E c \in S : \E T \in SUBSET ({c} \cap W) :
    /\ proxy.listening
    /\ proxy.sock[c] = "none"
    /\ c \notin proxy.clients /\ c \notin proxy.pingInterval
    /\ proxy' = handleConnection([BeginProxy(proxy) EXCEPT !.throws = T], esp, c)
    /\ esp' = BeginHandler(esp)
    /\ req' = Req(c, "<connection>")
    /\ hook' = hook
    /\ hist' = Record(hist, FALSE)

\* a client transport leaves the OPEN state
ClientSocketCloses ==
  \E c \in Sessions :
    /\ proxy.sock[c] = "open"
    /\ proxy' = [BeginProxy(proxy) EXCEPT !.sock[c] = "closing"]
    /\ esp' = BeginHandler(esp)
    /\ req' = NoReq
    /\ hook' = hook
    /\ hist' = Record(hist, FALSE)

\* the close event of a client transport
ClientCloseEvent ==
  \E c \in Sessions :
    /\ proxy.sock[c] \in {"closing", "closing 1001"}
    /\ proxy' = [handleClientDisconnection(BeginProxy(proxy), c) EXCEPT !.sock[c] = "none"]
    /\ esp' = BeginHandler(esp)
    /\ req' = NoReq
    /\ hook' = hook
    /\ hist' = Record(hist, FALSE)

\* the message event of a client transport.  S: the clients that send
\* frames; W: the transports on which a write can throw; Fr: the frames
ClientMessage(S, W, Fr) ==
  \E c \in S, frame \in Fr, fails \in BOOLEAN : \E T \in SUBSET ({c} \cap W) :
    /\ proxy.sock[c] = "open"
    /\ hist.track = "up" => Len(hist.accepted) < MaxCmds
    /\ \E Fs \in FailSets(IF fails THEN 1 ELSE 0) :
         LET r == handleClientMessage([BeginProxy(proxy) EXCEPT !.throws = T],
                                      BeginHandler(esp), c, frame, fails, Fs)
         IN /\ proxy' = r.p
            /\ esp' = r.e
    /\ req' = Req(c, frame)
    /\ hook' = hook
    /\ hist' = Record(hist, /\ c \in proxy.clients
                            /\ isValidCommand(frame) /\ frame # "ping"
                            /\ esp.isConnected /\ esp.ws # "null"
                            /\ ~fails)

\* the pong event of a client transport.  S: the clients that answer probes
ClientPong(S) ==
  \E c \in S :
    /\ proxy.sock[c] = "open"
    /\ proxy' = onClientPong(BeginProxy(proxy), c)
    /\ esp' = BeginHandler(esp)
    /\ req' = Req(c, "<pong>")
    /\ hook' = hook
    /\ hist' = Record(hist, FALSE)

\* a tick of a session's interval, which stays armed unless the callback
\* cleared it
ClientTick ==
  \E c \in proxy.pingInterval : \E T \in SUBSET {c} :
    /\ proxy.untilTick[c] = 0
    /\ LET q == sendPingToClient([BeginProxy(proxy) EXCEPT !.throws = T], c)
       IN proxy' = [q EXCEPT !.untilTick[c] =
                               IF c \in q.pingInterval THEN PING_INTERVAL ELSE 0]
    /\ esp' = BeginHandler(esp)
    /\ req' = Req(c, "<tick>")
    /\ hook' = hook
    /\ hist' = Record(hist, FALSE)

\* 5000 ms pass with no tick due
TimePasses ==
  /\ proxy.pingInterval # {}
  /\ \A c \in proxy.pingInterval : proxy.untilTick[c] > 0
  /\ proxy' = [BeginProxy(proxy) EXCEPT
                 !.untilTick = [c \in Sessions |->
                                  IF c \in proxy.pingInterval THEN @[c] - 1 ELSE @[c]],
                 !.sinceLastPing = [c \in Sessions |->
                                      IF c \in proxy.pingInterval /\ @[c] < SilenceCap
                                      THEN @[c] + 1 ELSE @[c]]]
  /\ esp' = BeginHandler(esp)
  /\ req' = NoReq
  /\ hook' = hook
  /\ hist' = Record(hist, FALSE)

\* FloydFeederProxyServer.stop: the proxy handler's shutdown, then the
\* WebSocket server and the HTTP server stop accepting
Stop ==
  /\ proxy.listening
  /\ LET r == shutdown(BeginProxy(proxy), BeginHandler(esp), <<{}>>)
     IN /\ proxy' = [r.p EXCEPT !.listening = FALSE]
        /\ esp' = r.e
  /\ req' = Req("api", "<stop>")
  /\ hook' = hook
  /\ hist' = [hist EXCEPT !.mark = ""]

\* the upstream link with every administrative request, and one session
LinkNext ==
  \/ ApiConnect \/ ApiDisconnect \/ ApiReconnect \/ PutConfig
  \/ ConnectionTimeout \/ ReconnectTimerFires \/ OrphanTimerFires
  \/ ForceSettleFires \/ ConfigSettleFires \/ KeepAliveTick
  \/ UpstreamOpen \/ UpstreamError \/ UpstreamClose
  \/ LeakedTransportCloses \/ Stop
  \/ ClientConnect({"A"}, {}) \/ ClientSocketCloses \/ ClientCloseEvent \/ ClientMessage(Sessions, {}, ClientFrames)

SpecLink == Init /\ [][LinkNext]_vars

\* the relay with every session, over a link whose configuration stays as
\* constructed and that is connected, lost and retried; the operator asks
\* for a connection only while no automatic retry is pending
OperatorConnect == ~esp.reconnectTimer /\ ApiConnect

Next ==
  \/ OperatorConnect \/ ApiDisconnect \/ ApiCommand
  \/ ReconnectTimerFires \/ KeepAliveTick
  \/ UpstreamOpen \/ UpstreamError \/ UpstreamClose \/ UpstreamMessage \/ Stop
  \/ ClientConnect(Sessions, {}) \/ ClientSocketCloses \/ ClientCloseEvent \/ ClientMessage(Sessions, {}, ClientFrames)

Spec == Init /\ [][Next]_vars

\* the registry under its clock: two sessions that join, fall silent and
\* leave, with the link as constructed (an explicit disconnect is announced
\* to them all the same); A sends frames and answers probes, B never does;
\* writes to A's transport can throw
LiveNext ==
  \/ ClientConnect({"A", "B"}, {"A"}) \/ ClientSocketCloses \/ ClientCloseEvent
  \/ ClientMessage({"A"}, {"A"}, ClientFrames) \/ ClientPong({"A"}) \/ ClientTick \/ TimePasses
  \/ ApiDisconnect \/ Stop

SpecLive == Init /\ [][LiveNext]_vars

\* what the sessions are sent, in order: two sessions that join and leave
\* (a write to A alone can throw when it joins) under a link that is
\* connected, delivers messages and is disconnected, over again
DownNext ==
  \/ ApiConnect \/ ApiDisconnect \/ UpstreamOpen \/ UpstreamMessage
  \/ ClientConnect({"A", "B"}, {"A"}) \/ ClientSocketCloses \/ ClientCloseEvent

\* what is written upstream, in order: two sessions that join, leave and
\* send frames, two recognized commands among them, under a link that is
\* connected and disconnected, over again
UpFrames == ClientFrames \cup {"get_sensors"}

UpNext ==
  \/ ApiConnect \/ ApiDisconnect \/ UpstreamOpen
  \/ ClientConnect({"A", "B"}, {}) \/ ClientSocketCloses \/ ClientCloseEvent
  \/ ClientMessage({"A", "B"}, {}, UpFrames)

InitUp ==
  /\ esp = InitClient
  /\ proxy = InitProxy
  /\ req = NoReq
  /\ hist = InitHist("up")
  /\ hook = InitHook

SpecUp == InitUp /\ [][UpNext]_vars

InitDown ==
  /\ esp = InitClient
  /\ proxy = InitProxy
  /\ req = NoReq
  /\ hist = InitHist("down")
  /\ hook = InitHook

SpecDown == InitDown /\ [][DownNext]_vars

\* ------------------------------------------------------------------------
\* The hook's handlers.  The relay's state does not change in them.

\* the pending work of the hook stays within the caps of the model
HookWithin(h) ==
  /\ h.closing <= MaxHookPending
  /\ h.delays <= MaxHookPending
  /\ h.orphans <= MaxHookPending

HookStep(h2) ==
  /\ HookWithin(h2)
  /\ hook' = h2
  /\ UNCHANGED <<esp, proxy, req, hist>>

\* connect(), also what the effect calls when it runs
HookConnect ==
  /\ hook.mounted
  /\ HookStep(hookConnect(BeginHook(hook, "connect")))

HookDisconnect ==
  /\ hook.mounted
  /\ HookStep(hookDisconnect(BeginHook(hook, "disconnect")))

HookReset ==
  /\ hook.mounted
  /\ HookStep(resetConnection(BeginHook(hook, "resetConnection")))

HookUnmount ==
  /\ hook.mounted
  /\ HookStep(unmount(BeginHook(hook, "unmount")))

\* onopen of the socket the hook refers to
HookOpen ==
  /\ hook.ws = "connecting"
  /\ HookStep(hookOnOpen(BeginHook(hook, "onopen")))

\* onclose of the socket the hook refers to: it failed, or the peer closed
HookSocketCloses ==
  /\ hook.ws \in {"connecting", "open"}
  /\ \E code \in HookCloseCodes :
       HookStep(hookOnClose([BeginHook(hook, "onclose") EXCEPT !.ws = "closed"], code))

\* onclose of a socket that cleanup closed
HookClosedSocketCloses ==
  /\ hook.closing > 0
  /\ \E code \in HookCloseCodes :
       HookStep(hookOnClose([BeginHook(hook, "onclose") EXCEPT !.closing = @ - 1], code))

\* the callback of connectInternal's setTimeout
HookConnectionTimeout ==
  /\ hook.connectionTimer
  /\ HookStep(cleanup([BeginHook(hook, "timeout") EXCEPT !.connectionTimer = FALSE]))

HookDelayFires ==
  /\ hook.delays > 0
  /\ HookStep(delayCallback([BeginHook(hook, "delay") EXCEPT !.delays = @ - 1]))

HookReconnectFires ==
  /\ hook.reconnectPending
  /\ HookStep(reconnectCallback([BeginHook(hook, "reconnect") EXCEPT !.reconnectPending = FALSE]))

\* the same callback of a timer whose handle was overwritten
HookOrphanFires ==
  /\ hook.orphans > 0
  /\ HookStep(reconnectCallback([BeginHook(hook, "reconnect") EXCEPT !.orphans = @ - 1]))

HookHeartbeatFires ==
  /\ hook.heartbeat
  /\ HookStep(heartbeatCallback(BeginHook(hook, "heartbeat")))

HookNext ==
  \/ HookConnect \/ HookDisconnect \/ HookReset \/ HookUnmount
  \/ HookOpen \/ HookSocketCloses \/ HookClosedSocketCloses
  \/ HookConnectionTimeout \/ HookDelayFires
  \/ HookReconnectFires \/ HookOrphanFires \/ HookHeartbeatFires

SpecHook == Init /\ [][HookNext]_vars

\* ================================================================ properties
Abnormal == {1006, 1011, 1014}

\* the handler that ran evaluated the retry policy: a transport error, a
\* connection timeout, or an abnormal closure
PolicyRan(e) ==
  /\ e.ev # <<>>
  /\ \/ e.ev[1].name = "error" /\ e.ev[1].arg \in {"transport", "Connection timeout"}
     \/ e.ev[1].name = "disconnected" /\ e.ev[1].code \in Abnormal

ExhaustedMsg == Msg("error", "max reconnect attempts reached")

Last(s) == s[Len(s)]

TimersArmed(e) ==
  (IF e.reconnectTimer THEN 1 ELSE 0) + e.orphanTimers + e.settleForce + e.settleCfg

\* ---------------------------------------------------------------- C1
LiveTransports ==
  (IF esp.ws \in {"connecting", "open"} THEN 1 ELSE 0) + esp.leaked

\* C1: at every instant at most one upstream transport exists, whatever the
\* interleaving of connect, disconnect, timeout and reconnect
C1_AtMostOneUpstream == LiveTransports <= 1

\* ---------------------------------------------------------------- C2
\* C2 as the specification words it: the failure that brings the count of
\* consecutive failed attempts to N emits the exhausted event
C2_ExhaustedAfterN ==
  [][(/\ PolicyRan(esp')
      /\ esp.reconnectAttempts = esp.config.maxReconnectAttempts - 1
      /\ esp'.reconnectAttempts = esp.config.maxReconnectAttempts)
     => "maxReconnectAttemptsReached" \in Names(esp'.ev)]_vars

\* C2 (amended): the counter never exceeds N; a failure met with fewer than N
\* counted attempts counts one more and schedules an attempt without
\* announcing anything; a failure met with N counted attempts (the N+1st in a
\* row) schedules nothing, leaves the counter, emits the exhausted event once
\* and every session still registered receives it; the counter otherwise only
\* changes by being reset to 0
C2_ExhaustedOnFailureAfterN ==
  /\ [](esp.reconnectAttempts <= esp.config.maxReconnectAttempts)
  /\ [][PolicyRan(esp') =>
          IF esp.reconnectAttempts < esp.config.maxReconnectAttempts
          THEN /\ esp'.reconnectAttempts = esp.reconnectAttempts + 1
               /\ esp'.reconnectTimer
               /\ "maxReconnectAttemptsReached" \notin Names(esp'.ev)
          ELSE /\ esp'.reconnectAttempts = esp.reconnectAttempts
               /\ TimersArmed(esp') = TimersArmed(esp)
               /\ Len(esp'.ev) = 2
               /\ esp'.ev[2].name = "maxReconnectAttemptsReached"
               /\ \A c \in proxy'.clients :
                    /\ proxy'.tx[c] # <<>>
                    /\ Last(proxy'.tx[c]) = ExhaustedMsg]_vars
  /\ [][~PolicyRan(esp') =>
          /\ esp'.reconnectAttempts \in {esp.reconnectAttempts, 0}
          /\ "maxReconnectAttemptsReached" \notin Names(esp'.ev)]_vars

\* the budget is used up, the exhausted event went out and all three sessions
\* received it
C2_Witness ==
  /\ esp.reconnectAttempts = MaxCfgAttempts
  /\ "maxReconnectAttemptsReached" \in Names(esp.ev)
  /\ ~esp.reconnectTimer
  /\ proxy.clients = Sessions
  /\ \A c \in Sessions : Last(proxy.tx[c]) = ExhaustedMsg

\* ---------------------------------------------------------------- C3
\* C3: once the failed attempts have reached the configured maximum (the one
\* last supplied), a failure emits the exhausted event and schedules no
\* further automatic attempt
C3_NoAttemptAfterExhausted ==
  [][(PolicyRan(esp') /\ esp.reconnectAttempts >= hist.intendedMax)
     => /\ "maxReconnectAttemptsReached" \in Names(esp'.ev)
        /\ TimersArmed(esp') <= TimersArmed(esp)
        /\ esp'.reconnectAttempts = esp.reconnectAttempts]_vars

\* ---------------------------------------------------------------- C4
\* C4: a forced reconnect resets the counter and leaves the link down with
\* one settle timer more; when that timer fires the counter is 0 and a new
\* attempt begins (or, with no usable address, fails at once); a failure met
\* below the maximum is again counted and scheduled; and while the retries
\* are used up the relay still registers a joining client with a status
\* snapshot and answers every frame of a registered session
C4_ForcedReconnectRecovers ==
  /\ [][esp'.settleForce > esp.settleForce =>
          /\ esp'.settleForce = esp.settleForce + 1
          /\ esp'.reconnectAttempts = 0
          /\ ~esp'.isConnected /\ ~esp'.isConnecting
          /\ ~esp'.reconnectTimer]_vars
  /\ [][esp'.settleForce < esp.settleForce =>
          /\ esp'.reconnectAttempts = 0
          /\ \/ esp'.isConnected
             \/ esp'.isConnecting
             \/ ~UrlValid(esp'.config) /\ "error" \in Names(esp'.ev)
          /\ (~esp.isConnected /\ ~esp.isConnecting /\ UrlValid(esp.config))
               => esp'.ws = "connecting" /\ esp'.connectionTimer]_vars
  /\ [][(PolicyRan(esp') /\ ~JsGE(esp.reconnectAttempts, esp.config.maxReconnectAttempts))
          => /\ esp'.reconnectAttempts = esp.reconnectAttempts + 1
             /\ esp'.reconnectTimer]_vars
  /\ [](Exhausted(esp) /\ req.from \in Sessions /\ req.frame = "<connection>"
          => /\ req.from \in proxy.clients
             /\ proxy.tx[req.from] # <<>>
             /\ proxy.tx[req.from][1].type = "status"
             /\ proxy.tx[req.from][1].st = <<FALSE, FALSE, esp.reconnectAttempts>>)
  /\ [](Exhausted(esp) /\ req.from \in proxy.clients /\ req.frame \in ClientFrames
          => proxy.tx[req.from] # <<>>)

\* the retries were used up, a forced reconnect was requested, its settle
\* timer has fired and a fresh attempt is under way with the counter at 0
C4_Witness ==
  /\ hist.mark = "recover"
  /\ esp.settleForce = 0
  /\ esp.isConnecting
  /\ esp.reconnectAttempts = 0

\* ---------------------------------------------------------------- C5
\* C5: an upstream closure with a code other than 1006, 1011, 1014 is
\* announced and nothing else: the counter and every timer stay as they
\* were; a closure with one of the three codes evaluates the retry policy
C5_DeliberateCloseNoReconnect ==
  [][(/\ esp'.ev # <<>>
      /\ esp'.ev[1].name = "disconnected"
      /\ esp'.ev[1].code # Undefined)
     => IF esp'.ev[1].code \in Abnormal
        THEN \/ /\ esp'.reconnectAttempts = esp.reconnectAttempts + 1
                /\ esp'.reconnectTimer
             \/ "maxReconnectAttemptsReached" \in Names(esp'.ev)
        ELSE /\ Len(esp'.ev) = 1
             /\ esp'.reconnectAttempts = esp.reconnectAttempts
             /\ esp'.reconnectTimer = esp.reconnectTimer
             /\ TimersArmed(esp') = TimersArmed(esp)
             /\ ~esp'.isConnected /\ ~esp'.isConnecting]_vars

\* the device went away (1001) and no attempt is scheduled
C5_Witness ==
  /\ esp.ev = <<Ev("disconnected", "", 1001)>>
  /\ ~esp.reconnectTimer
  /\ ~esp.isConnected

\* ---------------------------------------------------------------- C6
\* C6: after an explicit disconnect the link stays down, with the counter at
\* 0 and no upstream timer armed, until the next connect, reconnect or
\* configuration update
C6_DisconnectStaysDown ==
  hist.mark = "disconnect" =>
    /\ ~esp.isConnected
    /\ ~esp.isConnecting
    /\ esp.reconnectAttempts = 0
    /\ ~esp.connectionTimer
    /\ ~esp.pingTimer
    /\ TimersArmed(esp) = 0

\* ---------------------------------------------------------------- C7
\* C7: a recognized command other than ping, sent by a registered session
\* while the link is not connected, puts nothing on the upstream transport
\* and is answered with exactly one error message, to the sender alone
C7_NotConnectedAnswered ==
  (/\ req.from \in proxy.clients
   /\ req.frame \in RecognizedActions \ {"ping"}
   /\ ~esp.isConnected)
  => /\ esp.tx = <<>>
     /\ proxy.tx[req.from] = <<Msg("error", "ESP8266 not connected")>>
     /\ \A d \in Sessions \ {req.from} : proxy.tx[d] = <<>>

\* a command arrives while an attempt is under way; the sender is told
C7_Witness ==
  /\ req = Req("A", "toggle_relay")
  /\ esp.isConnecting
  /\ proxy.clients = Sessions
  /\ proxy.tx["A"] = <<Msg("error", "ESP8266 not connected")>>

\* ---------------------------------------------------------------- C8
\* C8: a frame of a registered session that does not parse, or that names
\* an unrecognized action, is answered with exactly one error message to
\* the sender; no other session receives anything and nothing goes upstream
C8_BadFrameAnsweredToSenderOnly ==
  (/\ req.from \in proxy.clients
   /\ req.frame \in ClientFrames
   /\ (req.frame = "<malformed>" \/ ~isValidCommand(req.frame)))
  => /\ Len(proxy.tx[req.from]) = 1
     /\ proxy.tx[req.from][1].type = "error"
     /\ \A d \in Sessions \ {req.from} : proxy.tx[d] = <<>>
     /\ esp.tx = <<>>

\* an unrecognized action arrives while three sessions are registered and
\* the link is connected
C8_Witness ==
  /\ req = Req("B", "self_destruct")
  /\ esp.isConnected
  /\ proxy.clients = Sessions
  /\ \A c \in Sessions : proxy.sock[c] = "open"
  /\ proxy.tx["B"] = <<Msg("error", "Invalid command format")>>

\* ---------------------------------------------------------------- C9
\* C9: whatever is written on the upstream transport is a recognized
\* command, whether it came from a client session or from the HTTP interface
C9_OnlyRecognizedForwarded ==
  \A i \in 1..Len(esp.tx) : isValidCommand(esp.tx[i])

\* ---------------------------------------------------------------- C10
\* C10: the payload kept for joining sessions is empty or the upstream
\* message broadcast last; a liveness acknowledgment is never kept
C10_LastKnownIsLastBroadcast ==
  /\ proxy.lastESP8266Data \in {"null", hist.lastBroadcast}
  /\ proxy.lastESP8266Data \notin {"pong", "ping_response"}

\* ---------------------------------------------------------------- C11
StatusOf(e) ==
  [type |-> "status", text |-> "snapshot",
   st |-> <<e.isConnected, e.isConnecting, e.reconnectAttempts>>]

\* C11: the handler that registers a client writes to it, and to no other
\* session, first a status message with the link's present flags and
\* counter and then the stored payload if there is one, the status alone
\* otherwise
C11_CatchUpOnJoin ==
  (req.from \in Sessions /\ req.frame = "<connection>" /\ req.from \notin proxy.throws)
  => /\ req.from \in proxy.clients
     /\ proxy.tx[req.from] =
          IF proxy.lastESP8266Data = "null"
          THEN <<StatusOf(esp)>>
          ELSE <<StatusOf(esp), Msg(proxy.lastESP8266Data, "payload")>>
     /\ \A d \in Sessions \ {req.from} : proxy.tx[d] = <<>>

\* B joins while the link is connected and a sensor reading is stored
C11_Witness ==
  /\ req = Req("B", "<connection>")
  /\ esp.isConnected
  /\ proxy.lastESP8266Data = "sensor_data"
  /\ proxy.tx["B"] = <<StatusOf(esp), Msg("sensor_data", "payload")>>

\* ---------------------------------------------------------------- C12
\* the handler that ran broadcast one message and wrote nothing else
OneBroadcast(e, r) ==
  /\ r.from \notin Sessions
  /\ Len(e.ev) = 1
  /\ e.ev[1].name = "message" => e.ev[1].arg \notin {"pong", "ping_response"}

\* C12: from any registry the program reaches and whichever writes throw,
\* broadcastToClients writes the message once to exactly the registered
\* sessions whose transport is open and whose write does not throw, and
\* returns with exactly those registered and holding a timer; and every
\* handler that broadcast one message left registered exactly the sessions
\* it wrote to, all of them registered before with an open transport
C12_BroadcastDelivery ==
  /\ [](\A F \in SUBSET Sessions :
          LET p == BeginProxy(proxy)
              m == Msg("sensor_data", "payload")
              q == broadcastToClients(p, m, F)
              ok == {c \in p.clients : p.sock[c] = "open" /\ c \notin F}
          IN /\ q.clients = ok
             /\ q.pingInterval = p.pingInterval \ (p.clients \ ok)
             /\ \A c \in Sessions : q.tx[c] = IF c \in ok THEN <<m>> ELSE <<>>
             /\ q.sock = p.sock)
  /\ [][OneBroadcast(esp', req') =>
          LET D == {c \in Sessions : proxy'.tx[c] # <<>>}
          IN /\ D \subseteq {c \in proxy.clients : proxy.sock[c] = "open"}
             /\ proxy'.clients = D
             /\ \A c \in D : Len(proxy'.tx[c]) = 1
             /\ \A c \in proxy.clients : proxy.sock[c] # "open" => c \notin proxy'.clients]_vars

\* a broadcast reached A; B, whose transport had left the open state, and
\* C, whose write threw, are no longer registered
C12_Witness ==
  /\ esp.ev = <<Ev("connected", "", 0)>>
  /\ proxy.clients = {"A"}
  /\ proxy.tx["A"] = <<Msg("status", "ESP8266 connected")>>
  /\ proxy.sock["B"] = "closing" /\ proxy.tx["B"] = <<>>
  /\ proxy.sock["C"] = "open" /\ proxy.tx["C"] = <<>>

\* ---------------------------------------------------------------- C13
\* C13: a ping command of a registered session is answered with one
\* synthesized acknowledgment written to that session alone, whatever the
\* state of the link, and nothing is written upstream nor emitted
C13_LivenessBypass ==
  (req.from \in proxy.clients /\ req.frame = "ping" /\ req.from \notin proxy.throws)
  => /\ proxy.tx[req.from] = <<Msg("command_response", "pong")>>
     /\ \A d \in Sessions \ {req.from} : proxy.tx[d] = <<>>
     /\ esp.tx = <<>>
     /\ esp.ev = <<>>

\* a ping is answered while the link is connected
C13_Witness ==
  /\ req = Req("A", "ping")
  /\ esp.isConnected
  /\ "A" \in proxy.clients
  /\ proxy.tx["A"] = <<Msg("command_response", "pong")>>

\* ---------------------------------------------------------------- C14
SendFailed(e) == \E i \in 1..Len(e.ev) : e.ev[i] = Ev("error", "send", 0)

\* C14: nothing is written upstream by a handler that leaves the link not
\* connected; and a handler in which the write of a command threw leaves the
\* link not connected, with the retry policy evaluated (an attempt scheduled
\* or the exhausted event emitted)
C14_SendFailureDowngrades ==
  /\ ~esp.isConnected => esp.tx = <<>>
  /\ SendFailed(esp) =>
       /\ ~esp.isConnected
       /\ esp.reconnectTimer \/ "maxReconnectAttemptsReached" \in Names(esp.ev)

\* ---------------------------------------------------------------- C15
\* C15: a handler writes nothing to a transport that is not open; and a
\* session whose single-session write threw in the handler that served its
\* connection or its frame is no longer registered and holds no timer
C15_SendFailureUnregisters ==
  /\ \A c \in Sessions : proxy.sock[c] # "open" => proxy.tx[c] = <<>>
  /\ \A c \in proxy.throws :
       (req.from = c /\ req.frame \in {"<connection>"} \cup ClientFrames)
       => c \notin proxy.clients /\ c \notin proxy.pingInterval

\* ---------------------------------------------------------------- C16
\* C16: the handler that stops the server leaves the registry empty, no
\* liveness timer armed, every transport that was registered and open
\* closing with code 1001, the link disconnected with its disconnected
\* event emitted, and not one message written to any client transport
C16_ShutdownClientsFirst ==
  /\ [](req = Req("api", "<stop>") =>
          /\ proxy.clients = {}
          /\ proxy.pingInterval = {}
          /\ esp.ev = <<Ev("disconnected", "", Undefined)>>
          /\ ~esp.isConnected /\ ~esp.isConnecting /\ esp.ws = "null"
          /\ \A c \in Sessions : proxy.tx[c] = <<>>)
  /\ [][req' = Req("api", "<stop>") =>
          \A c \in proxy.clients :
            proxy'.sock[c] = IF proxy.sock[c] = "open" THEN "closing 1001"
                             ELSE proxy.sock[c]]_vars

\* the server stopped with three sessions registered on open transports
C16_Witness ==
  /\ req = Req("api", "<stop>")
  /\ \A c \in Sessions : proxy.sock[c] = "closing 1001"
  /\ esp.ev = <<Ev("disconnected", "", Undefined)>>

\* ---------------------------------------------------------------- C17
\* C17: once the server has stopped, no timer of the relay is armed, no
\* transport is open or being opened, and no connection attempt is under way
C17_QuietAfterShutdown ==
  ~proxy.listening =>
    /\ proxy.pingInterval = {}
    /\ ~esp.pingTimer /\ ~esp.connectionTimer
    /\ TimersArmed(esp) = 0
    /\ LiveTransports = 0
    /\ \A c \in Sessions : proxy.sock[c] # "open"
    /\ ~esp.isConnected /\ ~esp.isConnecting

\* ---------------------------------------------------------------- C18
\* C18: whenever the link is not connected its keepalive timer is not
\* armed; and the handler of an explicit disconnect leaves no reconnect
\* timer pending
C18_KeepaliveCancelledOnLoss ==
  /\ ~esp.isConnected => ~esp.pingTimer
  /\ (esp.ev # <<>> /\ esp.ev[1] = Ev("disconnected", "", Undefined))
       => ~esp.reconnectTimer /\ esp.orphanTimers = 0

\* ---------------------------------------------------------------- C19
\* C19: the sessions that hold a liveness timer are exactly the registered
\* ones, and a timer that is held comes due within one interval
C19_TimerIffRegistered ==
  /\ proxy.pingInterval = proxy.clients
  /\ \A c \in Sessions :
       proxy.untilTick[c] \in (IF c \in proxy.clients THEN 0..PING_INTERVAL ELSE {0})

\* A was unregistered by its own tick while its transport is open, its timer
\* went with it, and B is registered with its timer
C19_Witness ==
  /\ req = Req("A", "<tick>")
  /\ proxy.sock["A"] = "open"
  /\ "A" \notin proxy.clients /\ "A" \notin proxy.pingInterval
  /\ "B" \in proxy.clients /\ "B" \in proxy.pingInterval

\* ---------------------------------------------------------------- C20
\* C20: a tick of a registered session unregisters it when its transport is
\* not open, else when more than interval + timeout has passed since its
\* last liveness signal, else when the probe cannot be written; otherwise it
\* writes one transport-level probe and the session stays registered with
\* its timer running.  A session whose silence began when a tick was due or
\* at registration is therefore never registered past its second tick
C20_LivenessTick ==
  /\ [][req'.frame = "<tick>" =>
          LET c == req'.from
          IN /\ c \in proxy.clients
             /\ IF \/ proxy.sock[c] # "open"
                   \/ proxy.sinceLastPing[c] > PING_INTERVAL + PING_TIMEOUT
                   \/ c \in proxy'.throws
                THEN /\ c \notin proxy'.clients
                     /\ proxy'.tx[c] = <<>>
                ELSE /\ c \in proxy'.clients
                     /\ proxy'.tx[c] = <<Msg("<ping frame>", "")>>
                     /\ proxy'.untilTick[c] = PING_INTERVAL
                     /\ proxy'.sinceLastPing[c] = proxy.sinceLastPing[c]
             /\ proxy'.clients \ {c} = proxy.clients \ {c}]_vars
  /\ [](\A c \in proxy.clients :
          (proxy.sinceLastPing[c] + proxy.untilTick[c]) % PING_INTERVAL = 0
          => proxy.sinceLastPing[c] + proxy.untilTick[c] <= 2 * PING_INTERVAL)

\* B, silent since it registered, was unregistered by a tick although its
\* transport is open and the probe was not even tried
C20_Witness ==
  /\ req = Req("B", "<tick>")
  /\ proxy.sock["B"] = "open"
  /\ "B" \notin proxy.throws
  /\ "B" \notin proxy.clients

\* ---------------------------------------------------------------- C21
\* C21: a pong of a registered session's transport and a ping command from
\* it both set the time the liveness check compares against to now and leave
\* the session registered; and a tick of a registered session whose
\* transport is open, whose last signal is at most interval + timeout old
\* and whose probe is written leaves it registered with its timer running
C21_SignalKeepsRegistered ==
  /\ [][(req'.frame \in {"<pong>", "ping"} /\ req'.from \in proxy.clients) =>
          /\ proxy'.sinceLastPing[req'.from] = 0
          /\ req'.from \in proxy'.clients
          /\ req'.from \in proxy'.pingInterval]_vars
  /\ [][(/\ req'.frame = "<tick>"
         /\ proxy.sock[req'.from] = "open"
         /\ proxy.sinceLastPing[req'.from] <= PING_INTERVAL + PING_TIMEOUT
         /\ req'.from \notin proxy'.throws) =>
          /\ req'.from \in proxy'.clients
          /\ req'.from \in proxy'.pingInterval]_vars

\* A's second tick comes interval + timeout after its last signal, a signal
\* it gave between the ticks, and A stays registered
C21_Witness ==
  /\ req = Req("A", "<tick>")
  /\ proxy.sinceLastPing["A"] = PING_INTERVAL + PING_TIMEOUT
  /\ "A" \in proxy.clients
  /\ proxy.tx["A"] = <<Msg("<ping frame>", "")>>

\* ---------------------------------------------------------------- C22
\* C22: a tick of the upstream keepalive, whether or not the device's
\* acknowledgment is overdue, leaves the link's flags, its transport, its
\* counter and its timers as they were and emits no event but the error of a
\* write that threw; and a tick while the link is connected writes one ping
\* command upstream, or fails in writing it
C22_KeepaliveOnlyMonitors ==
  [][KeepAliveTick =>
       /\ esp'.isConnected = esp.isConnected
       /\ esp'.isConnecting = esp.isConnecting
       /\ esp'.ws = esp.ws
       /\ esp'.reconnectAttempts = esp.reconnectAttempts
       /\ esp'.reconnectTimer = esp.reconnectTimer
       /\ esp'.connectionTimer = esp.connectionTimer
       /\ esp'.pingTimer = esp.pingTimer
       /\ Untracked(esp') = Untracked(esp)
       /\ Names(esp'.ev) \subseteq {"error"}
       /\ IF esp.isConnected
          THEN \/ esp'.tx = <<"ping">> /\ esp'.ev = <<>>
               \/ esp'.tx = <<>> /\ SendFailed(esp')
          ELSE esp'.tx = <<>> /\ esp'.ev = <<>>]_vars

\* a keepalive tick wrote its ping upstream and the link is connected still
C22_Witness ==
  /\ req = NoReq
  /\ esp.tx = <<"ping">>
  /\ esp.isConnected /\ esp.ws = "open" /\ esp.pingTimer
  /\ ~esp.reconnectTimer

\* ---------------------------------------------------------------- C23
\* the phase the two flags of the client stand for
Phase(e) ==
  IF e.isConnected THEN "Connected"
  ELSE IF e.isConnecting THEN "Connecting" ELSE "Disconnected"

PhaseTransitions ==
  {<<"Disconnected", "Connecting">>, <<"Connecting", "Connected">>,
   <<"Connecting", "Disconnected">>, <<"Connected", "Disconnected">>}

\* C23: the two flags are never both set; a handler that changes the phase
\* changes it along Disconnected -> Connecting, Connecting -> Connected,
\* Connecting -> Disconnected or Connected -> Disconnected; and the handler
\* that takes Connecting to Connected leaves the connect timeout cancelled,
\* reconnectAttempts at 0 and the keepalive timer armed, and emits connected
C23_PhaseTransitions ==
  /\ [](~(esp.isConnected /\ esp.isConnecting))
  /\ [][Phase(esp') # Phase(esp) =>
          /\ <<Phase(esp), Phase(esp')>> \in PhaseTransitions
          /\ Phase(esp') = "Connected" =>
               /\ ~esp'.connectionTimer
               /\ esp'.reconnectAttempts = 0
               /\ esp'.pingTimer
               /\ esp'.ev = <<Ev("connected", "", 0)>>]_vars

\* an automatic attempt has opened: the counter is back at 0 although a
\* reconnect was scheduled before
C23_Witness ==
  /\ Phase(esp) = "Connected"
  /\ esp.ev = <<Ev("connected", "", 0)>>
  /\ esp.reconnectAttempts = 0 /\ esp.pingTimer /\ ~esp.connectionTimer
  /\ esp.leaked > 0

\* ---------------------------------------------------------------- C24
\* C24 as stated: a session that is written an upstream payload has been
\* written, before it, a status that reports the connection opened last as
\* connected
C24_StatusBeforeAnyPayload ==
  \A c \in Sessions : Payloads(proxy.tx[c]) # <<>> => c \in hist.told

\* C24: the handler of the link's open event writes no payload; every
\* session that was registered with an open transport when the link opened
\* and is registered still has been written the connected status of that
\* connection; and so has every such session that is written a payload
C24_StatusBeforeBroadcast ==
  /\ "connected" \in Names(esp.ev) =>
       \A c \in Sessions : Payloads(proxy.tx[c]) = <<>>
  /\ hist.atOpen \cap proxy.clients \subseteq hist.told
  /\ \A c \in hist.atOpen : Payloads(proxy.tx[c]) # <<>> => c \in hist.told

\* a reading is broadcast to B, which was registered when the link opened
\* and was told so, and to A, which joined later
C24_Witness ==
  /\ "B" \in hist.atOpen /\ "B" \in hist.told
  /\ "A" \notin hist.atOpen
  /\ proxy.tx["B"] = <<Msg("sensor_data", "payload")>>
  /\ proxy.tx["A"] = <<Msg("sensor_data", "payload")>>

\* ---------------------------------------------------------------- C25
\* s can be had from t by leaving elements out
RECURSIVE IsSubseq(_, _)
IsSubseq(s, t) ==
  IF s = <<>> THEN TRUE
  ELSE IF t = <<>> THEN FALSE
  ELSE IF Head(s) = Head(t) THEN IsSubseq(Tail(s), Tail(t))
  ELSE IsSubseq(s, Tail(t))

\* C25: the payloads written to a session since its transport opened, the
\* stored one it was sent on joining included, are at every moment a
\* subsequence of the messages the link has emitted so far, in their order;
\* and a handler writes a session at most one payload for each message event
\* it emitted, the handler of a join at most one
C25_BroadcastOrder ==
  /\ \A c \in Sessions : IsSubseq(hist.recv[c], hist.emitted)
  /\ \A c \in Sessions :
       Len(Payloads(proxy.tx[c])) <=
         IF req.frame = "<connection>" THEN 1 ELSE Len(Messages(esp.ev))

\* B was sent both messages as they came, A the second when it joined
C25_Witness ==
  /\ hist.emitted = <<"sensor_data", "control_response">>
  /\ hist.recv["B"] = <<"sensor_data", "control_response">>
  /\ hist.recv["A"] = <<"control_response">>

\* ---------------------------------------------------------------- C26
\* C26: a config update that finds the link connected emits disconnected and
\* leaves the link down with no reconnect timer pending and the counter at
\* 0, its settle timer apart; and when that settle timer fires a connect
\* attempt starts, on a transport made from the updated configuration, with
\* reconnectAttempts at 0
C26_ConfigUpdateReconnects ==
  /\ [][(PutConfig /\ esp.isConnected) =>
          /\ Ev("disconnected", "", Undefined) \in {esp'.ev[i] : i \in 1..Len(esp'.ev)}
          /\ Phase(esp') = "Disconnected"
          /\ ~esp'.reconnectTimer /\ esp'.orphanTimers = 0
          /\ esp'.reconnectAttempts = 0
          /\ esp'.settleCfg = esp.settleCfg + 1]_vars
  /\ [][ConfigSettleFires =>
          /\ Phase(esp) = "Disconnected"
          /\ Phase(esp') = "Connecting"
          /\ esp'.ws = "connecting"
          /\ UrlValid(esp'.config)
          /\ esp'.reconnectAttempts = 0]_vars

\* ---------------------------------------------------------------- C27
\* C27: updateConfig called with some of the fields leaves every other field
\* of the configuration at its value; and every config request served by the
\* endpoint is the request of a body whose fields the configuration now
\* holds, every field the body lacks being as it was
C27_PartialUpdateKeepsRest ==
  /\ [](\A body \in Bodies :
          LET e2 == updateConfig(BeginHandler(esp), body)
          IN \A k \in ConfigFields :
               e2.config[k] = IF k \in DOMAIN body THEN body[k] ELSE esp.config[k])
  /\ [][PutConfig =>
          \E body \in Bodies :
            /\ esp' = updateConfig(BeginHandler(esp), PutConfigArg(body))
            /\ \A k \in ConfigFields :
                 esp'.config[k] = IF k \in DOMAIN body THEN body[k] ELSE esp.config[k]]_vars

\* ---------------------------------------------------------------- C28
\* the frames that do not parse or that name an unrecognized action
BadFrames == {f \in ClientFrames : f = "<malformed>" \/ ~isValidCommand(f)}

\* C28: from every state the relay reaches, the handler of a frame that does
\* not parse or names an unrecognized action, from any session whose
\* transport is open and whether or not the write of the answer throws,
\* leaves the upstream client as it was (flags, counter, timers, transport,
\* nothing written or emitted) and leaves the stored payload, the registry,
\* the timers, the liveness times and the transports of all sessions as
\* they were, the sender's included
C28_BadFrameChangesNothing ==
  \A c \in Sessions, frame \in BadFrames, fails \in BOOLEAN :
    \A T \in SUBSET {c} :
      proxy.sock[c] = "open" =>
        LET p == [BeginProxy(proxy) EXCEPT !.throws = T]
            e == BeginHandler(esp)
            r == handleClientMessage(p, e, c, frame, fails, <<{}>>)
        IN /\ r.e = e
           /\ r.p.lastESP8266Data = p.lastESP8266Data
           /\ r.p.clients = p.clients
           /\ r.p.pingInterval = p.pingInterval
           /\ r.p.sinceLastPing = p.sinceLastPing
           /\ r.p.untilTick = p.untilTick
           /\ r.p.sock = p.sock

\* A's frame did not parse and was answered while the link is connected and
\* a reading is stored; A and B are registered still
C28_Witness ==
  /\ req = Req("A", "<malformed>")
  /\ proxy.tx["A"] = <<Msg("error", "Invalid JSON format")>>
  /\ esp.isConnected
  /\ proxy.lastESP8266Data = "sensor_data"
  /\ {"A", "B"} \subseteq proxy.clients

\* ---------------------------------------------------------------- C29
\* the events of the link's state, and the message each is announced with
StateEvents == {"connected", "disconnected", "error", "maxReconnectAttemptsReached"}

Synthesized(name) ==
  CASE name = "connected" -> Msg("status", "ESP8266 connected")
    [] name = "disconnected" -> Msg("error", "ESP8266 disconnected")
    [] name = "error" -> Msg("error", "ESP8266 error")
    [] name = "maxReconnectAttemptsReached" -> Msg("error", "max reconnect attempts reached")

\* what the listeners write a session for the events of one handler
RECURSIVE Announced(_)
Announced(evs) ==
  IF evs = <<>> THEN <<>>
  ELSE LET ev == Head(evs)
       IN (IF ev.name \in StateEvents THEN <<Synthesized(ev.name)>>
           ELSE IF ev.name = "message" /\ ev.arg \notin {"pong", "ping_response"}
                THEN <<Msg(ev.arg, "payload")>>
                ELSE <<>>)
          \o Announced(Tail(evs))

\* C29: from every state the relay reaches, the listener of a connected,
\* disconnected, error or exhausted event writes the one status or error
\* message of that event to each registered session whose transport is open,
\* unless the write throws, and nothing to any other; and after a handler
\* that served no client frame each session still registered has been
\* written exactly the messages of the events the handler emitted, one for
\* each in the order of the emits, and each session not registered at most
\* the first of them
C29_EventsAnnouncedOnce ==
  /\ \A name \in StateEvents : \A F \in SUBSET OpenClients :
       LET q == onEspEvent(BeginProxy(proxy), Ev(name, "", 0), F)
       IN \A c \in Sessions :
            q.tx[c] = IF c \in OpenClients \ F THEN <<Synthesized(name)>> ELSE <<>>
  /\ req.from \notin Sessions =>
       /\ \A c \in proxy.clients : proxy.tx[c] = Announced(esp.ev)
       /\ \A c \in Sessions \ proxy.clients :
            /\ Len(proxy.tx[c]) < Len(Announced(esp.ev)) \/ proxy.tx[c] = <<>>
            /\ proxy.tx[c] = SubSeq(Announced(esp.ev), 1, Len(proxy.tx[c]))

\* the failure after the last attempt emitted error and then the exhausted
\* event: A was written both messages; C's second write threw
C29_Witness ==
  /\ Names(esp.ev) = {"error", "maxReconnectAttemptsReached"}
  /\ "A" \in proxy.clients
  /\ proxy.tx["A"] = <<Msg("error", "ESP8266 error"),
                       Msg("error", "max reconnect attempts reached")>>
  /\ "C" \notin proxy.clients /\ proxy.sock["C"] = "open"
  /\ proxy.tx["C"] = <<Msg("error", "ESP8266 error")>>

\* ---------------------------------------------------------------- C30
\* the commands of a sequence of accepted frames
RECURSIVE Commands(_)
Commands(acc) ==
  IF acc = <<>> THEN <<>> ELSE <<Head(acc)[2]>> \o Commands(Tail(acc))

\* C30: the frames that handlers of client messages have written upstream
\* are, in order and one for one, the recognized commands other than ping
\* that registered sessions sent while the link was connected and whose
\* write did not throw; and no handler of a client message writes more than
\* one frame
C30_ForwardingOrder ==
  /\ hist.written = Commands(hist.accepted)
  /\ req.from \in Sessions => Len(esp.tx) <= 1

\* A's command was written upstream first and B's after it
C30_Witness ==
  /\ hist.accepted = <<<<"A", "get_sensors">>, <<"B", "toggle_relay">>>>
  /\ hist.written = <<"get_sensors", "toggle_relay">>

\* ---------------------------------------------------------------- C31
\* C31: from every state the registry reaches and for every session id,
\* handleClientDisconnection applied twice leaves what it leaves applied
\* once; applied to an id that is not registered it changes nothing; and it
\* leaves the entry, the timer, the liveness time and the transport of every
\* other session as they were
C31_UnregisterIdempotent ==
  \A c \in Sessions :
    LET p == BeginProxy(proxy)
        once == handleClientDisconnection(p, c)
        twice == handleClientDisconnection(once, c)
    IN /\ twice = once
       /\ c \notin once.clients /\ c \notin once.pingInterval
       /\ c \notin p.clients => once = p
       /\ once.clients \ {c} = p.clients \ {c}
       /\ once.pingInterval \ {c} = p.pingInterval \ {c}
       /\ once.sock = p.sock
       /\ \A d \in Sessions \ {c} :
            /\ once.sinceLastPing[d] = p.sinceLastPing[d]
            /\ once.untilTick[d] = p.untilTick[d]

\* A was unregistered by its tick and its transport is closing: the close
\* event will unregister it again, while B is registered with its timer
C31_Witness ==
  /\ "A" \notin proxy.clients
  /\ proxy.sock["A"] = "closing"
  /\ "B" \in proxy.clients /\ "B" \in proxy.pingInterval
  /\ proxy.untilTick["B"] > 0
  /\ hist.mark = ""

C33_OneReconnectTimer ==
  esp.orphanTimers = 0


\* ---------------------------------------------------------------- C34
\* C34: between handlers isConnected and isConnecting are never both set,
\* and the client refers to a transport exactly when one of them is set:
\* a transport still connecting while isConnecting, an open one while
\* isConnected, none while both are clear
C34_FlagsAndTransport ==
  /\ ~(esp.isConnected /\ esp.isConnecting)
  /\ esp.ws # "null" <=> (esp.isConnected \/ esp.isConnecting)
  /\ esp.isConnecting => esp.ws = "connecting"
  /\ esp.isConnected => esp.ws = "open"

\* an open link was closed by the peer with a code that schedules a retry:
\* both flags are clear and the reference is gone
C34_Witness ==
  /\ esp.ev = <<Ev("disconnected", "", 1006)>>
  /\ ~esp.isConnected /\ ~esp.isConnecting /\ esp.ws = "null"
  /\ esp.reconnectTimer


\* ---------------------------------------------------------------- C35
\* C35: every client transport that is open is in the registry: a session
\* is not removed while its transport stays open.  Fails: the liveness
\* tick removes a session that did not answer, or whose probe threw, by
\* handleClientDisconnection alone, which never closes the socket.
C35_OpenTransportRegistered ==
  \A c \in Sessions : proxy.sock[c] = "open" => c \in proxy.clients


\* ---------------------------------------------------------------- C36
\* C36: once disconnect() was called the hook creates no socket until
\* connect() or resetConnection() is called, whatever close code the
\* socket that disconnect() closed reports and whenever a delay that was
\* pending runs out.  Fails: cleanup cancels the timers it has handles of
\* and closes the socket, but the socket's onclose stays attached and the
\* 2-second delay of onclose has no handle; either leads, through
\* attemptReconnect, to connectInternal.
C36_DisconnectStopsAttempts ==
  [][hook.stopped /\ hook'.stopped => ~hook'.began]_vars


\* ---------------------------------------------------------------- C37
\* reconnect timers of the hook that are pending
HookReconnectTimers(h) == (IF h.reconnectPending THEN 1 ELSE 0) + h.orphans

\* C37: the hook's attempt counter never exceeds MAX_RECONNECT_ATTEMPTS, at
\* most one reconnect timer is pending, and while the counter equals
\* MAX_RECONNECT_ATTEMPTS only connect() or resetConnection() creates a
\* socket.  Fails: attemptReconnect overwrites the handle of a pending
\* reconnect timer when two close events are each followed by their delay,
\* and the timer's callback increments the counter and connects without
\* testing the limit.
C37_HookRetryBounds ==
  /\ [](hook.attempts <= MAX_RECONNECT_ATTEMPTS)
  /\ [](HookReconnectTimers(hook) <= 1)
  /\ [][hook.attempts = MAX_RECONNECT_ATTEMPTS /\ hook'.began
          => hook'.op \in {"connect", "resetConnection"}]_vars
====
